---- MODULE Spec2Model ----
(***************************************************************************)
(* Workflow dependency-graph computations of src/workflowctl:              *)
(* ancestor / descendant resolution, root computation, merge roots and     *)
(* the topological scheduler.  Workflow keys are strings in the source;    *)
(* here they are the naturals 1..NumKeys, whose order stands for the       *)
(* lexicographic order of the key strings.  A call that exceeds the        *)
(* interpreter's recursion limit raises RecursionError; a raised call is   *)
(* the record Raise.                                                       *)
(***************************************************************************)
EXTENDS Integers, Sequences, FiniteSets, TLC

\* ------------------------------------------------------------------ bounds
NumKeys == 3
MaxDeps == 2
MaxList == 2
RecursionLimit == 6
MaxIterations == 8
MaxHours == 2
MaxPathLen == 3
MaxPatternLen == 4

Keys == 1..NumKeys

\* ------------------------------------------------------------------ helpers
Range(s) == {s[i] : i \in 1..Len(s)}

SeqsUpTo(S, n) == UNION {[1..m -> S] : m \in 0..n}

Perms(S) == {p \in [1..Cardinality(S) -> S] : Range(p) = S}

EmptyDict == <<>>

dict_set(d, k, v) == [x \in (DOMAIN d) \cup {k} |-> IF x = k THEN v ELSE d[x]]

Raise == [err |-> TRUE]

Ok(v) == [err |-> FALSE, val |-> v]

\* graph.get(workflow, {}).get("depends_on", [])
depends_on(graph, workflow) ==
    IF workflow \in DOMAIN graph THEN graph[workflow].depends_on ELSE <<>>

\* Iteration over a Python set: the elements in the order the hash table
\* yields them, given as a permutation of the keys.
set_iter(S, ord) == SelectSeq(ord, LAMBDA k : k \in S)

\* Iteration over graph.items(): the document's key order.
graph_items(graph) == SelectSeq([i \in 1..NumKeys |-> i], LAMBDA k : k \in DOMAIN graph)

\* list.insert(i, item)
list_insert(queue, i, item) ==
    SubSeq(queue, 1, i - 1) \o <<item>> \o SubSeq(queue, i, Len(queue))

RECURSIVE insert_sorted_from(_, _, _)
insert_sorted_from(queue, item, i) ==
    IF i > Len(queue) THEN Append(queue, item)
    ELSE IF item < queue[i] THEN list_insert(queue, i, item)
    ELSE insert_sorted_from(queue, item, i + 1)

insert_sorted(queue, item) == insert_sorted_from(queue, item, 1)

\* sorted() left out: the list in iteration order
sorted_missing(lst) == lst

RECURSIVE sorted_from(_, _, _)
sorted_from(lst, i, acc) ==
    IF i > Len(lst) THEN acc
    ELSE sorted_from(lst, i + 1, insert_sorted(acc, lst[i]))

\* sorted(list) of keys
sorted(lst) == sorted_from(lst, 1, <<>>)

\* ------------------------------------------------------------------ resolver
RECURSIVE get_all_ancestors(_, _, _, _)
RECURSIVE ancestors_loop(_, _, _, _, _, _)

ancestors_loop(direct_deps, i, ancestors, graph, cache, depth) ==
    IF i > Len(direct_deps) THEN [err |-> FALSE, val |-> ancestors, cache |-> cache]
    ELSE LET r == get_all_ancestors(direct_deps[i], graph, cache, depth + 1)
         IN  IF r.err THEN Raise
             ELSE ancestors_loop(direct_deps, i + 1,
                                 ancestors \cup {direct_deps[i]} \cup r.val,
                                 graph, r.cache, depth)

\* direct dependencies only, no transitive walk
get_all_ancestors_direct_only(workflow, graph, cache, depth) ==
    LET direct == Range(depends_on(graph, workflow))
    IN  [err |-> FALSE, val |-> direct, cache |-> dict_set(cache, workflow, direct)]

\* the walk's result with the queried workflow itself added
get_all_ancestors_with_self(workflow, graph, cache, depth) ==
    IF depth > RecursionLimit THEN Raise
    ELSE IF workflow \in DOMAIN cache
    THEN [err |-> FALSE, val |-> cache[workflow], cache |-> cache]
    ELSE LET r == ancestors_loop(depends_on(graph, workflow), 1, {workflow}, graph, cache, depth)
         IN  IF r.err THEN Raise
             ELSE [err |-> FALSE, val |-> r.val,
                   cache |-> dict_set(r.cache, workflow, r.val)]

get_all_ancestors(workflow, graph, cache, depth) ==
    IF depth > RecursionLimit THEN Raise
    ELSE IF workflow \in DOMAIN cache
    THEN [err |-> FALSE, val |-> cache[workflow], cache |-> cache]
    ELSE LET r == ancestors_loop(depends_on(graph, workflow), 1, {}, graph, cache, depth)
         IN  IF r.err THEN Raise
             ELSE [err |-> FALSE, val |-> r.val,
                   cache |-> dict_set(r.cache, workflow, r.val)]

RECURSIVE get_all_descendants(_, _, _, _)
RECURSIVE descendants_loop(_, _, _, _, _, _, _)

descendants_loop(items, i, workflow, descendants, graph, cache, depth) ==
    IF i > Len(items) THEN [err |-> FALSE, val |-> descendants, cache |-> cache]
    ELSE IF workflow \in Range(graph[items[i]].depends_on)
    THEN LET r == get_all_descendants(items[i], graph, cache, depth + 1)
         IN  IF r.err THEN Raise
             ELSE descendants_loop(items, i + 1, workflow,
                                   descendants \cup {items[i]} \cup r.val,
                                   graph, r.cache, depth)
    ELSE descendants_loop(items, i + 1, workflow, descendants, graph, cache, depth)

\* direct dependents only, no transitive walk
get_all_descendants_direct_only(workflow, graph, cache, depth) ==
    LET direct == {wf_key \in DOMAIN graph : workflow \in Range(graph[wf_key].depends_on)}
    IN  [err |-> FALSE, val |-> direct, cache |-> dict_set(cache, workflow, direct)]

get_all_descendants(workflow, graph, cache, depth) ==
    IF depth > RecursionLimit THEN Raise
    ELSE IF workflow \in DOMAIN cache
    THEN [err |-> FALSE, val |-> cache[workflow], cache |-> cache]
    ELSE LET r == descendants_loop(graph_items(graph), 1, workflow, {}, graph, cache, depth)
         IN  IF r.err THEN Raise
             ELSE [err |-> FALSE, val |-> r.val,
                   cache |-> dict_set(r.cache, workflow, r.val)]

\* ------------------------------------------------------------------ roots
\* "for workflow in affected: get_all_ancestors(workflow, graph, ancestor_cache)"
RECURSIVE build_ancestor_cache(_, _, _, _)
build_ancestor_cache(todo, i, graph, cache) ==
    IF i > Len(todo) THEN [err |-> FALSE, cache |-> cache]
    ELSE LET r == get_all_ancestors(todo[i], graph, cache, 1)
         IN  IF r.err THEN Raise
             ELSE build_ancestor_cache(todo, i + 1, graph, r.cache)

\* "for workflow in affected: if not ancestors.intersection(affected): roots.append"
RECURSIVE find_roots(_, _, _, _, _)
find_roots(todo, i, affected, cache, roots) ==
    IF i > Len(todo) THEN roots
    ELSE LET ancestors == IF todo[i] \in DOMAIN cache THEN cache[todo[i]] ELSE {}
         IN  find_roots(todo, i + 1, affected, cache,
                        IF ancestors \cap affected = {} THEN Append(roots, todo[i])
                        ELSE roots)

\* the roots in set iteration order, not sorted
roots_of_affected_unsorted(affected, graph, ord) ==
    LET c == build_ancestor_cache(set_iter(affected, ord), 1, graph, EmptyDict)
    IN  IF c.err THEN Raise
        ELSE Ok(find_roots(set_iter(affected, ord), 1, affected, c.cache, <<>>))

\* every affected workflow kept, whether an ancestor of it is affected or not
roots_of_affected_all(affected, graph, ord) ==
    LET c == build_ancestor_cache(set_iter(affected, ord), 1, graph, EmptyDict)
    IN  IF c.err THEN Raise
        ELSE Ok(sorted(set_iter(affected, ord)))

roots_of_affected(affected, graph, ord) ==
    LET c == build_ancestor_cache(set_iter(affected, ord), 1, graph, EmptyDict)
    IN  IF c.err THEN Raise
        ELSE Ok(sorted(find_roots(set_iter(affected, ord), 1, affected, c.cache, <<>>)))

\* the running workflows left out of the combined set
compute_merge_roots_new_only(running_workflows, new_roots, graph, ord) ==
    IF new_roots = <<>> THEN Ok(<<>>)
    ELSE LET affected == {wf \in Range(new_roots) : wf \in DOMAIN graph}
         IN  IF affected = {} THEN Ok(<<>>)
             ELSE roots_of_affected(affected, graph, ord)

\* the early return on empty new_roots left out
compute_merge_roots_no_early_return(running_workflows, new_roots, graph, ord) ==
    LET affected == {wf \in Range(running_workflows) \cup Range(new_roots) :
                       wf \in DOMAIN graph}
    IN  IF affected = {} THEN Ok(<<>>)
        ELSE roots_of_affected(affected, graph, ord)

compute_merge_roots(running_workflows, new_roots, graph, ord) ==
    IF new_roots = <<>> THEN Ok(<<>>)
    ELSE LET affected == {wf \in Range(running_workflows) \cup Range(new_roots) :
                            wf \in DOMAIN graph}
         IN  IF affected = {} THEN Ok(<<>>)
             ELSE roots_of_affected(affected, graph, ord)

\* ------------------------------------------------------------------ scheduler
\* A scheduler result is [hang, val]: hang is TRUE when a while loop is still
\* running after MaxIterations iterations.
Done(v) == [hang |-> FALSE, val |-> v]

Hang == [hang |-> TRUE]

\* every in-degree zero: dependencies ignored
build_in_degree_map_zero(workflows, graph) == [wf \in workflows |-> 0]

\* in-degree: the entries of depends_on (counted with repetition) that are in
\* the workflow set
build_in_degree_map(workflows, graph) ==
    [wf \in workflows |->
        Cardinality({i \in 1..Len(depends_on(graph, wf)) :
                        depends_on(graph, wf)[i] \in workflows})]

\* "for wf in workflows: if current in depends_on: in_degree[wf] -= 1; ..."
RECURSIVE decrement_dependents(_, _, _, _, _, _)
decrement_dependents(todo, i, current, graph, in_degree, queue) ==
    IF i > Len(todo) THEN [in_degree |-> in_degree, queue |-> queue]
    ELSE IF current \in Range(depends_on(graph, todo[i]))
    THEN LET lowered == [in_degree EXCEPT ![todo[i]] = @ - 1]
         IN  decrement_dependents(todo, i + 1, current, graph, lowered,
                                  IF lowered[todo[i]] = 0
                                  THEN insert_sorted(queue, todo[i])
                                  ELSE queue)
    ELSE decrement_dependents(todo, i + 1, current, graph, in_degree, queue)

RECURSIVE topological_sort_loop(_, _, _, _, _, _, _)
topological_sort_loop(queue, result, in_degree, workflows, graph, ord, n) ==
    IF queue = <<>> THEN Done(result)
    ELSE IF n > MaxIterations THEN Hang
    ELSE LET current == Head(queue)
             r == decrement_dependents(set_iter(workflows, ord), 1, current, graph,
                                       in_degree, Tail(queue))
         IN  topological_sort_loop(r.queue, Append(result, current), r.in_degree,
                                   workflows, graph, ord, n + 1)

topological_sort(workflows, graph, ord) ==
    LET in_degree == build_in_degree_map(workflows, graph)
        queue == sorted(SelectSeq(set_iter(workflows, ord),
                                  LAMBDA wf : in_degree[wf] = 0))
    IN  topological_sort_loop(queue, <<>>, in_degree, workflows, graph, ord, 1)

DefaultDisplayOrder == 999

\* a missing display_order taken as 0, ahead of every declared one
display_order_missing_first(graph, workflow) ==
    IF workflow \in DOMAIN graph /\ "display_order" \in DOMAIN graph[workflow]
    THEN graph[workflow].display_order
    ELSE 0

\* graph.get(workflow, {}).get("display_order", 999)
display_order(graph, workflow) ==
    IF workflow \in DOMAIN graph /\ "display_order" \in DOMAIN graph[workflow]
    THEN graph[workflow].display_order
    ELSE DefaultDisplayOrder

\* (display_order, workflow) < (display_order, workflow) as Python compares tuples
sort_key_less(a, b, graph) ==
    \/ display_order(graph, a) < display_order(graph, b)
    \/ (display_order(graph, a) = display_order(graph, b) /\ a < b)

RECURSIVE insert_by_key(_, _, _, _)
insert_by_key(lst, item, i, graph) ==
    IF i > Len(lst) THEN Append(lst, item)
    ELSE IF sort_key_less(item, lst[i], graph) THEN list_insert(lst, i, item)
    ELSE insert_by_key(lst, item, i + 1, graph)

\* sorted(list, key=lambda wf: _sort_key(wf, graph))
RECURSIVE sorted_by_key(_, _, _, _)
sorted_by_key(lst, i, acc, graph) ==
    IF i > Len(lst) THEN acc
    ELSE sorted_by_key(lst, i + 1, insert_by_key(acc, lst[i], 1, graph), graph)

\* the in-degree of every remaining workflow lowered, dependent or not
RECURSIVE remove_level_lower_all(_, _, _, _, _)
remove_level_lower_all(current_level, i, remaining, in_degree, graph) ==
    IF i > Len(current_level) THEN [remaining |-> remaining, in_degree |-> in_degree]
    ELSE LET rest == remaining \ {current_level[i]}
         IN  remove_level_lower_all(current_level, i + 1, rest,
                                    [other \in DOMAIN in_degree |->
                                        IF other \in rest THEN in_degree[other] - 1
                                        ELSE in_degree[other]],
                                    graph)

\* "for wf in current_level: remaining.remove(wf); for other in remaining: ..."
RECURSIVE remove_level(_, _, _, _, _)
remove_level(current_level, i, remaining, in_degree, graph) ==
    IF i > Len(current_level) THEN [remaining |-> remaining, in_degree |-> in_degree]
    ELSE LET wf == current_level[i]
             rest == remaining \ {wf}
         IN  remove_level(current_level, i + 1, rest,
                          [other \in DOMAIN in_degree |->
                              IF other \in rest /\ wf \in Range(depends_on(graph, other))
                              THEN in_degree[other] - 1
                              ELSE in_degree[other]],
                          graph)

RECURSIVE topological_sort_levels_loop(_, _, _, _, _, _)
topological_sort_levels_loop(levels, remaining, in_degree, graph, ord, n) ==
    IF remaining = {} THEN Done(levels)
    ELSE IF n > MaxIterations THEN Hang
    ELSE LET current_level ==
                 sorted_by_key(SelectSeq(set_iter(remaining, ord),
                                         LAMBDA wf : in_degree[wf] = 0),
                               1, <<>>, graph)
         IN  IF current_level = <<>> THEN Done(levels)
             ELSE LET r == remove_level(current_level, 1, remaining, in_degree, graph)
                  IN  topological_sort_levels_loop(Append(levels, current_level),
                                                   r.remaining, r.in_degree,
                                                   graph, ord, n + 1)

topological_sort_levels(workflows, graph, ord) ==
    topological_sort_levels_loop(<<>>, workflows, build_in_degree_map(workflows, graph),
                                 graph, ord, 1)

\* "for root in roots: all_workflows.update(get_all_descendants(root, graph, cache))"
RECURSIVE collect_descendants(_, _, _, _, _)
collect_descendants(roots, i, all_workflows, graph, cache) ==
    IF i > Len(roots) THEN Ok(all_workflows)
    ELSE LET r == get_all_descendants(roots[i], graph, cache, 1)
         IN  IF r.err THEN Raise
             ELSE collect_descendants(roots, i + 1, all_workflows \cup r.val, graph, r.cache)

\* A plan is [err, hang, val]; ordOf is the iteration order of the collected set.
compute_execution_plan(roots, graph, ordOf) ==
    LET all_workflows == collect_descendants(roots, 1, Range(roots), graph, EmptyDict)
    IN  IF all_workflows.err THEN Raise
        ELSE LET plan == topological_sort(all_workflows.val, graph, ordOf)
             IN  IF plan.hang THEN [err |-> FALSE, hang |-> TRUE]
                 ELSE [err |-> FALSE, hang |-> FALSE, val |-> plan.val]

compute_execution_plan_levels(roots, graph, ordOf) ==
    LET all_workflows == collect_descendants(roots, 1, Range(roots), graph, EmptyDict)
    IN  IF all_workflows.err THEN Raise
        ELSE LET plan == topological_sort_levels(all_workflows.val, graph, ordOf)
             IN  IF plan.hang THEN [err |-> FALSE, hang |-> TRUE]
                 ELSE [err |-> FALSE, hang |-> FALSE, val |-> plan.val]

\* ------------------------------------------------------------------ matcher
\* A path or a pattern is the sequence of its characters.  The pattern
\* metacharacters of fnmatch are "*" (any run of characters, "/" included)
\* and "?" (any one character); bracket classes are outside the alphabet.
RECURSIVE fnmatch_from(_, _, _, _)
fnmatch_from(name, i, pat, j) ==
    IF j > Len(pat) THEN i > Len(name)
    ELSE IF pat[j] = "*"
    THEN \/ fnmatch_from(name, i, pat, j + 1)
         \/ (i <= Len(name) /\ fnmatch_from(name, i + 1, pat, j))
    ELSE IF i > Len(name) THEN FALSE
    ELSE IF pat[j] = "?" THEN fnmatch_from(name, i + 1, pat, j + 1)
    ELSE pat[j] = name[i] /\ fnmatch_from(name, i + 1, pat, j + 1)

fnmatch(name, pat) == fnmatch_from(name, 1, pat, 1)

starts_at(s, i, sub) ==
    /\ i + Len(sub) - 1 <= Len(s)
    /\ \A k \in 1..Len(sub) : s[i + k - 1] = sub[k]

DoubleStar == <<"*", "*">>

\* "**" in pattern
contains_doublestar(pattern) == \E i \in 1..Len(pattern) : starts_at(pattern, i, DoubleStar)

\* pattern.replace("**", "*"): non-overlapping occurrences, left to right
RECURSIVE replace_doublestar(_, _)
replace_doublestar(pattern, i) ==
    IF i > Len(pattern) THEN <<>>
    ELSE IF starts_at(pattern, i, DoubleStar)
    THEN <<"*">> \o replace_doublestar(pattern, i + 2)
    ELSE <<pattern[i]>> \o replace_doublestar(pattern, i + 1)

\* pattern.split("**")[0]: the text before the first "**"
split_first(pattern) ==
    LET first == CHOOSE i \in 1..Len(pattern) :
                    /\ starts_at(pattern, i, DoubleStar)
                    /\ \A k \in 1..(i - 1) : ~starts_at(pattern, k, DoubleStar)
    IN  SubSeq(pattern, 1, first - 1)

startswith(s, prefix) == starts_at(s, 1, prefix)

\* glob matching only, the prefix test on "**" patterns left out
file_matches_pattern_glob_only(filepath, pattern) ==
    IF contains_doublestar(pattern)
    THEN \/ fnmatch(filepath, replace_doublestar(pattern, 1))
         \/ fnmatch(filepath, pattern)
    ELSE fnmatch(filepath, pattern)

\* the empty path refused before any matching
file_matches_pattern_nonempty_only(filepath, pattern) ==
    /\ filepath # <<>>
    /\ IF contains_doublestar(pattern)
       THEN \/ fnmatch(filepath, replace_doublestar(pattern, 1))
            \/ startswith(filepath, split_first(pattern))
            \/ fnmatch(filepath, pattern)
       ELSE fnmatch(filepath, pattern)

file_matches_pattern(filepath, pattern) ==
    IF contains_doublestar(pattern)
    THEN \/ fnmatch(filepath, replace_doublestar(pattern, 1))
         \/ startswith(filepath, split_first(pattern))
         \/ fnmatch(filepath, pattern)
    ELSE fnmatch(filepath, pattern)

file_matches_patterns(filepath, patterns) ==
    \E n \in 1..Len(patterns) : file_matches_pattern(filepath, patterns[n])

\* workflow_config.get("paths", [])
paths_of(graph, workflow_key) ==
    IF "paths" \in DOMAIN graph[workflow_key] THEN graph[workflow_key].paths ELSE <<>>

\* only the first changed file is looked at
get_affected_workflows_first_file(changed_files, graph) ==
    {workflow_key \in DOMAIN graph :
        /\ changed_files # <<>>
        /\ file_matches_patterns(changed_files[1], paths_of(graph, workflow_key))}

\* only the last changed file is looked at
get_affected_workflows_last_file(changed_files, graph) ==
    {workflow_key \in DOMAIN graph :
        /\ changed_files # <<>>
        /\ file_matches_patterns(changed_files[Len(changed_files)],
                                 paths_of(graph, workflow_key))}

get_affected_workflows(changed_files, graph) ==
    {workflow_key \in DOMAIN graph :
        \E n \in 1..Len(changed_files) :
            file_matches_patterns(changed_files[n], paths_of(graph, workflow_key))}

compute_root_workflows(changed_files, graph, ord) ==
    LET affected == get_affected_workflows(changed_files, graph)
    IN  IF affected = {} THEN Ok(<<>>)
        ELSE roots_of_affected(affected, graph, ord)

\* cancel.py: merge roots and the descendants of each, one shared cache
RECURSIVE cancel_loop(_, _, _, _, _)
cancel_loop(merge_roots, i, to_cancel, graph, cache) ==
    IF i > Len(merge_roots) THEN Ok(to_cancel)
    ELSE LET r == get_all_descendants(merge_roots[i], graph, cache, 1)
         IN  IF r.err THEN Raise
             ELSE cancel_loop(merge_roots, i + 1, to_cancel \cup r.val, graph, r.cache)

get_workflows_to_cancel(merge_roots, graph) ==
    cancel_loop(merge_roots, 1, Range(merge_roots), graph, EmptyDict)

\* ------------------------------------------------------------------ descendant readiness
\* compute_descendants.py.  The platform's run history is, per workflow, the
\* creation hour of its latest successful run, or NoRun.
NoRun == -1

find_descendants(graph, workflow) ==
    SelectSeq(graph_items(graph),
              LAMBDA name : workflow \in Range(graph[name].depends_on))

\* the runs query "status=success&created>=since" returned a run id
check_workflow_completed(workflow_key, since, runs) ==
    runs[workflow_key] # NoRun /\ runs[workflow_key] >= since

\* the just-completed workflow is queried like every other dependency
get_dependency_status_checks_current(graph, descendant, current_workflow, runs, now, lookback_hours) ==
    LET dependencies == depends_on(graph, descendant)
        since == now - lookback_hours
        missing == SelectSeq(dependencies,
                             LAMBDA dep : ~check_workflow_completed(dep, since, runs))
    IN  [all_met |-> Len(missing) = 0,
         satisfied |-> SelectSeq(dependencies,
                                 LAMBDA dep : check_workflow_completed(dep, since, runs)),
         missing |-> missing]

get_dependency_status(graph, descendant, current_workflow, runs, now, lookback_hours) ==
    LET dependencies == depends_on(graph, descendant)
        other_deps == SelectSeq(dependencies, LAMBDA d : d # current_workflow)
        since == now - lookback_hours
        satisfied == <<current_workflow>> \o
                     SelectSeq(other_deps,
                               LAMBDA dep : check_workflow_completed(dep, since, runs))
        missing == SelectSeq(other_deps,
                             LAMBDA dep : ~check_workflow_completed(dep, since, runs))
    IN  [all_met |-> Len(missing) = 0, satisfied |-> satisfied, missing |-> missing]

\* (ready, waiting): ready a list, waiting a dict keyed by descendant
compute_descendants_status(graph, workflow, runs, now, lookback_hours) ==
    LET descendants == find_descendants(graph, workflow)
        status(descendant) ==
            get_dependency_status(graph, descendant, workflow, runs, now, lookback_hours)
        held == {d \in Range(descendants) : ~status(d).all_met}
    IN  [ready |-> SelectSeq(descendants, LAMBDA d : status(d).all_met),
         waiting |-> [d \in held |-> [missing |-> status(d).missing,
                                      satisfied |-> status(d).satisfied]]]

\* One evaluation (a run of compute_descendants_status for the completed
\* workflow) taken query by query: it is at descendant i and at query j of
\* that descendant's other dependencies, with the lists built so far.
other_deps_of(graph, descendant, current_workflow) ==
    SelectSeq(depends_on(graph, descendant), LAMBDA d : d # current_workflow)

evaluation_start(workflow) ==
    [pc |-> "query", i |-> 1, j |-> 1, satisfied |-> <<workflow>>, missing |-> <<>>,
     ready |-> <<>>, waiting |-> EmptyDict]

\* the local steps up to the next runs query, or to the return
RECURSIVE evaluation_advance(_, _, _)
evaluation_advance(graph, workflow, e) ==
    LET descendants == find_descendants(graph, workflow)
    IN  IF e.i > Len(descendants)
        THEN [pc |-> "done", ready |-> e.ready, waiting |-> e.waiting]
        ELSE IF e.j > Len(other_deps_of(graph, descendants[e.i], workflow))
        THEN evaluation_advance(graph, workflow,
                 [pc |-> "query", i |-> e.i + 1, j |-> 1,
                  satisfied |-> <<workflow>>, missing |-> <<>>,
                  ready |-> IF Len(e.missing) = 0
                            THEN Append(e.ready, descendants[e.i]) ELSE e.ready,
                  waiting |-> IF Len(e.missing) = 0 THEN e.waiting
                              ELSE dict_set(e.waiting, descendants[e.i],
                                            [missing |-> e.missing,
                                             satisfied |-> e.satisfied])])
        ELSE e

\* the runs query never answered: every queried dependency taken as missing
evaluation_query_blind(graph, workflow, e, runs, now, lookback_hours) ==
    LET descendants == find_descendants(graph, workflow)
        dep == other_deps_of(graph, descendants[e.i], workflow)[e.j]
    IN  evaluation_advance(graph, workflow,
            [e EXCEPT !.j = @ + 1, !.missing = Append(@, dep)])

\* one check_workflow_completed call of get_dependency_status
evaluation_query(graph, workflow, e, runs, now, lookback_hours) ==
    LET descendants == find_descendants(graph, workflow)
        dep == other_deps_of(graph, descendants[e.i], workflow)[e.j]
        since == now - lookback_hours
    IN  evaluation_advance(graph, workflow,
            IF check_workflow_completed(dep, since, runs)
            THEN [e EXCEPT !.j = @ + 1, !.satisfied = Append(@, dep)]
            ELSE [e EXCEPT !.j = @ + 1, !.missing = Append(@, dep)])

\* ------------------------------------------------------------------ commands
\* cancel.py and dispatch_roots.py: the cancel-superseded-workflows and
\* dispatch-root-workflows commands.  A command ends as [rc, loop, selected,
\* attempted]: its return code, whether it reached its cancel (dispatch)
\* loop, the runs (roots) the loop went over and the ones a call was made for.
Exit(rc) == [rc |-> rc, loop |-> FALSE, selected |-> <<>>, attempted |-> <<>>]

\* an uncaught RecursionError ends the interpreter with status 1
Crash == [rc |-> 1, loop |-> FALSE, selected |-> <<>>, attempted |-> <<>>, crashed |-> TRUE]

\* config.get("name", "")
name_of(graph, key) == IF "name" \in DOMAIN graph[key] THEN graph[key].name ELSE ""

RECURSIVE name_map_loop(_, _, _, _)
name_map_loop(items, i, graph, name_to_key) ==
    IF i > Len(items) THEN name_to_key
    ELSE LET name == name_of(graph, items[i])
         IN  IF name # ""
             THEN name_map_loop(items, i + 1, graph, dict_set(name_to_key, name, items[i]))
             ELSE name_map_loop(items, i + 1, graph, name_to_key)

build_name_to_key_map(graph) == name_map_loop(graph_items(graph), 1, graph, EmptyDict)

\* The outcome of "gh run cancel": exit status 0 ("cancelled"), a non-zero
\* status whose stderr says the run cannot be cancelled, or another non-zero
\* status ("error").
cancel_run(outcome) ==
    IF outcome # "cancelled"
    THEN IF outcome = "cannot_be_cancelled" THEN TRUE ELSE FALSE
    ELSE TRUE

\* the loop stops at the first failed cancellation
RECURSIVE cancel_runs_loop_fail_fast(_, _, _, _, _)
cancel_runs_loop_fail_fast(runs_to_cancel, i, outcomes, failed, attempted) ==
    IF i > Len(runs_to_cancel) \/ failed > 0
    THEN [rc |-> IF failed > 0 THEN 1 ELSE 0, loop |-> TRUE,
          selected |-> runs_to_cancel, attempted |-> attempted]
    ELSE cancel_runs_loop_fail_fast(runs_to_cancel, i + 1, outcomes,
                                    IF cancel_run(outcomes[i]) THEN failed ELSE failed + 1,
                                    Append(attempted, runs_to_cancel[i].id))

\* "for run in runs_to_cancel: if not cancel_run(...): failed += 1"
RECURSIVE cancel_runs_loop(_, _, _, _, _)
cancel_runs_loop(runs_to_cancel, i, outcomes, failed, attempted) ==
    IF i > Len(runs_to_cancel)
    THEN [rc |-> IF failed > 0 THEN 1 ELSE 0, loop |-> TRUE,
          selected |-> runs_to_cancel, attempted |-> attempted]
    ELSE cancel_runs_loop(runs_to_cancel, i + 1, outcomes,
                          IF cancel_run(outcomes[i]) THEN failed ELSE failed + 1,
                          Append(attempted, runs_to_cancel[i].id))

\* cancel.main up to the run listing: an Exit, a Crash, or the set of
\* workflows to cancel with the name-to-key map.  running is the parsed
\* --running argument ([err] on invalid JSON), graph_found whether the graph
\* file exists.
cancel_plan(running, graph_found, changed_files, graph, ord) ==
    IF running.err THEN Exit(1)
    ELSE IF running.val = <<>> THEN Exit(0)
    ELSE IF ~graph_found THEN Exit(1)
    ELSE LET roots == compute_root_workflows(changed_files, graph, ord)
         IN  IF roots.err THEN Crash
             ELSE LET merge_roots == compute_merge_roots(running.val, roots.val, graph, ord)
                  IN  IF merge_roots.err THEN Crash
                      ELSE IF merge_roots.val = <<>> THEN Exit(0)
                      ELSE LET workflows_to_cancel ==
                                   get_workflows_to_cancel(merge_roots.val, graph)
                           IN  IF workflows_to_cancel.err THEN Crash
                               ELSE [loop |-> TRUE,
                                     workflows_to_cancel |-> workflows_to_cancel.val,
                                     name_to_key |-> build_name_to_key_map(graph)]

\* every listed run whose name is the name of a workflow, to cancel or not
cancel_select_any_known(plan, in_progress, queued) ==
    IF ~plan.loop THEN plan
    ELSE LET runs_to_cancel ==
                 SelectSeq(in_progress \o queued,
                           LAMBDA run : run.name \in DOMAIN plan.name_to_key)
         IN  IF runs_to_cancel = <<>> THEN Exit(0)
             ELSE [loop |-> TRUE, selected |-> runs_to_cancel]

\* the listed runs (in_progress, then queued) whose name maps to a workflow
\* to cancel
cancel_select(plan, in_progress, queued) ==
    IF ~plan.loop THEN plan
    ELSE LET runs_to_cancel ==
                 SelectSeq(in_progress \o queued,
                           LAMBDA run : /\ run.name \in DOMAIN plan.name_to_key
                                        /\ plan.name_to_key[run.name]
                                               \in plan.workflows_to_cancel)
         IN  IF runs_to_cancel = <<>> THEN Exit(0)
             ELSE [loop |-> TRUE, selected |-> runs_to_cancel]

cancel_finish(sel, outcomes) ==
    IF ~sel.loop THEN sel
    ELSE cancel_runs_loop(sel.selected, 1, outcomes, 0, <<>>)

cancel_main(running, graph_found, changed_files, graph, in_progress, queued, outcomes, ord) ==
    cancel_finish(cancel_select(cancel_plan(running, graph_found, changed_files, graph, ord),
                                in_progress, queued),
                  outcomes)

\* dispatch_gh_workflow: exit status 0 of "gh workflow run"
dispatch_workflow(outcome) == outcome = "dispatched"

\* "for workflow in roots: if not workflow_file_exists(workflow): continue;
\*  if not dispatch_workflow(...): failed += 1"
RECURSIVE dispatch_loop(_, _, _, _, _, _)
dispatch_loop(roots, i, existing, outcomes, failed, attempted) ==
    IF i > Len(roots)
    THEN [rc |-> IF failed > 0 THEN 1 ELSE 0, loop |-> TRUE,
          selected |-> roots, attempted |-> attempted]
    ELSE IF roots[i] \notin existing
    THEN dispatch_loop(roots, i + 1, existing, outcomes, failed, attempted)
    ELSE dispatch_loop(roots, i + 1, existing, outcomes,
                       IF dispatch_workflow(outcomes[Len(attempted) + 1])
                       THEN failed ELSE failed + 1,
                       Append(attempted, roots[i]))

\* dispatch_roots.main up to its loop: an Exit, a Crash, or the roots to
\* dispatch.
dispatch_select(running, graph_found, changed_files, graph, ord) ==
    IF ~graph_found THEN Exit(1)
    ELSE LET roots == compute_root_workflows(changed_files, graph, ord)
         IN  IF roots.err THEN Crash
             ELSE IF running.err THEN Exit(1)
             ELSE LET merged == IF running.val # <<>>
                                THEN compute_merge_roots(running.val, roots.val, graph, ord)
                                ELSE roots
                  IN  IF merged.err THEN Crash
                      ELSE IF merged.val = <<>> THEN Exit(0)
                      ELSE [loop |-> TRUE, selected |-> merged.val]

\* existing: the workflows whose .github/workflows/<key>.yml file exists
dispatch_finish(sel, existing, outcomes) ==
    IF ~sel.loop THEN sel
    ELSE dispatch_loop(sel.selected, 1, existing, outcomes, 0, <<>>)

dispatch_main(running, graph_found, changed_files, graph, existing, outcomes, ord) ==
    dispatch_finish(dispatch_select(running, graph_found, changed_files, graph, ord),
                    existing, outcomes)

\* ------------------------------------------------------------------ state
VARIABLES graph, call

vars == <<graph, call>>

DepLists == SeqsUpTo(Keys, MaxDeps)

KeyLists == SeqsUpTo(Keys, MaxList)

Graphs == UNION {[D -> [depends_on : DepLists]] : D \in SUBSET Keys}

\* Changed files and trigger patterns of the root-computation runs.
File_a_b == <<"a", "/", "b">>

File_b_a == <<"b", "/", "a">>

File_a == <<"a">>

Files == {File_a_b, File_b_a, File_a}

FileLists == SeqsUpTo(Files, MaxList)

\* the trigger patterns ["a/*"] and ["b", "b/**"]
PathLists == { << <<"a", "/", "*">> >>,
               << <<"b">>, <<"b", "/", "*", "*">> >> }

PathGraphs == UNION {[D -> [depends_on : DepLists, paths : PathLists]] : D \in SUBSET Keys}

Idle == [op |-> "idle"]

\* ------------------------------------------------------------------ merge roots
InitMerge ==
    /\ graph \in Graphs
    /\ call = Idle

CallMergeRoots ==
    /\ call.op = "idle"
    /\ \E running \in KeyLists, new_roots \in KeyLists :
       \E ord \in Perms((Range(running) \cup Range(new_roots)) \cap DOMAIN graph) :
          call' = [op |-> "compute_merge_roots", running |-> running,
                   new_roots |-> new_roots, ord |-> ord,
                   result |-> compute_merge_roots(running, new_roots, graph, ord)]
    /\ UNCHANGED graph

NextMerge == CallMergeRoots

SpecMerge == InitMerge /\ [][NextMerge]_vars

\* ------------------------------------------------------------------ root computation
InitRoots ==
    /\ graph \in PathGraphs
    /\ call = Idle

CallRootWorkflows ==
    /\ call.op = "idle"
    /\ \E changed_files \in FileLists :
       \E ord \in Perms(get_affected_workflows(changed_files, graph)) :
          call' = [op |-> "compute_root_workflows", changed_files |-> changed_files,
                   ord |-> ord,
                   result |-> compute_root_workflows(changed_files, graph, ord)]
    /\ UNCHANGED graph

NextRoots == CallRootWorkflows

SpecRoots == InitRoots /\ [][NextRoots]_vars

\* ------------------------------------------------------------------ scheduler runs
InitTopo ==
    /\ graph \in Graphs
    /\ call = Idle

CallTopologicalSort ==
    /\ call.op = "idle"
    /\ \E workflows \in SUBSET Keys :
       \E ord \in Perms(workflows) :
          call' = [op |-> "topological_sort", workflows |-> workflows, ord |-> ord,
                   result |-> topological_sort(workflows, graph, ord)]
    /\ UNCHANGED graph

CallTopologicalSortLevels ==
    /\ call.op = "idle"
    /\ \E workflows \in SUBSET Keys :
       \E ord \in Perms(workflows) :
          call' = [op |-> "topological_sort_levels", workflows |-> workflows, ord |-> ord,
                   result |-> topological_sort_levels(workflows, graph, ord)]
    /\ UNCHANGED graph

NextTopo == CallTopologicalSort \/ CallTopologicalSortLevels

SpecTopo == InitTopo /\ [][NextTopo]_vars

\* ------------------------------------------------------------------ level ordering runs
\* Graph documents whose entries may declare a display_order, below, at or
\* above the default of _sort_key; every workflow has at most one dependency.
DisplayOrders == {1, DefaultDisplayOrder - 1, DefaultDisplayOrder, DefaultDisplayOrder + 1}

OrderedEntries ==
    [depends_on : SeqsUpTo(Keys, 1)] \cup
    [depends_on : SeqsUpTo(Keys, 1), display_order : DisplayOrders]

OrderedGraphs == UNION {[D -> OrderedEntries] : D \in SUBSET Keys}

InitLevels ==
    /\ graph \in OrderedGraphs
    /\ call = Idle

NextLevels == CallTopologicalSortLevels

SpecLevels == InitLevels /\ [][NextLevels]_vars

\* ------------------------------------------------------------------ resolver runs
InitResolver ==
    /\ graph \in Graphs
    /\ call = Idle

CallGetAllAncestors ==
    /\ call.op = "idle"
    /\ \E workflow \in Keys :
          call' = [op |-> "get_all_ancestors", workflow |-> workflow,
                   result |-> get_all_ancestors(workflow, graph, EmptyDict, 1)]
    /\ UNCHANGED graph

CallGetAllDescendants ==
    /\ call.op = "idle"
    /\ \E workflow \in Keys :
          call' = [op |-> "get_all_descendants", workflow |-> workflow,
                   result |-> get_all_descendants(workflow, graph, EmptyDict, 1)]
    /\ UNCHANGED graph

CallExecutionPlan ==
    /\ call.op = "idle"
    /\ \E roots \in KeyLists, ordOf \in Perms(Keys) :
          call' = [op |-> "compute_execution_plan", roots |-> roots, ordOf |-> ordOf,
                   result |-> compute_execution_plan(roots, graph, ordOf)]
    /\ UNCHANGED graph

CallExecutionPlanLevels ==
    /\ call.op = "idle"
    /\ \E roots \in KeyLists, ordOf \in Perms(Keys) :
          call' = [op |-> "compute_execution_plan_levels", roots |-> roots, ordOf |-> ordOf,
                   result |-> compute_execution_plan_levels(roots, graph, ordOf)]
    /\ UNCHANGED graph

CallWorkflowsToCancel ==
    /\ call.op = "idle"
    /\ \E merge_roots \in KeyLists :
          call' = [op |-> "get_workflows_to_cancel", merge_roots |-> merge_roots,
                   result |-> get_workflows_to_cancel(merge_roots, graph)]
    /\ UNCHANGED graph

NextResolver ==
    \/ CallGetAllAncestors
    \/ CallGetAllDescendants
    \/ CallExecutionPlan
    \/ CallExecutionPlanLevels
    \/ CallWorkflowsToCancel

SpecResolver == InitResolver /\ [][NextResolver]_vars

\* ------------------------------------------------------------------ readiness runs
\* The evaluation runs at hour MaxHours; a successful run was created at an
\* hour of 0..MaxHours.
Hours == 0..MaxHours

RunHistories == [Keys -> {NoRun} \cup Hours]

InitDescendants ==
    /\ graph \in Graphs
    /\ call = Idle

CallDescendantsStatus ==
    /\ call.op = "idle"
    /\ \E workflow \in Keys, runs \in RunHistories, lookback_hours \in 1..MaxHours :
          call' = [op |-> "compute_descendants_status", workflow |-> workflow,
                   runs |-> runs, now |-> MaxHours, lookback_hours |-> lookback_hours,
                   result |-> compute_descendants_status(graph, workflow, runs,
                                                         MaxHours, lookback_hours)]
    /\ UNCHANGED graph

NextDescendants == CallDescendantsStatus

SpecDescendants == InitDescendants /\ [][NextDescendants]_vars

\* ------------------------------------------------------------------ command runs
\* Graph documents with display names and trigger patterns: every workflow
\* depends on at most one workflow of a smaller key; odd keys are triggered by
\* "a/*", even keys by "b" and "b/**"; the names are all distinct, or shared by
\* the keys from 2 on, or missing for key 2.
CommandDeps == {d \in [Keys -> SeqsUpTo(Keys, 1)] : \A k \in Keys : \A j \in Range(d[k]) : j < k}

CommandNames ==
    { [k \in Keys |-> IF k = 1 THEN "A" ELSE IF k = 2 THEN "B" ELSE "C"],
      [k \in Keys |-> IF k = 1 THEN "A" ELSE "B"],
      [k \in Keys |-> IF k = 1 THEN "A" ELSE IF k = 2 THEN "" ELSE "B"] }

CommandPaths(k) ==
    IF k % 2 = 1 THEN << <<"a", "/", "*">> >>
    ELSE << <<"b">>, <<"b", "/", "*", "*">> >>

CommandGraphs ==
    { [k \in Keys |-> [name |-> names[k], depends_on |-> deps[k], paths |-> CommandPaths(k)]] :
        names \in CommandNames, deps \in CommandDeps }

\* --running: a JSON array of keys, or text that is not JSON
RunningArgs == {Raise} \cup {Ok(running) : running \in KeyLists}

\* display names of the platform's runs; "X" is the name of no workflow
RunNames == {"A", "B", "X"}

runs_of(names, first_id) ==
    [i \in 1..Len(names) |-> [id |-> first_id + i - 1, name |-> names[i]]]

\* the in_progress and the queued runs on the platform
RunListings ==
    UNION { { <<runs_of(ip, 1), runs_of(q, Len(ip) + 1)>> :
                q \in SeqsUpTo(RunNames, MaxList - Len(ip)) } :
            ip \in SeqsUpTo(RunNames, MaxList) }

CancelOutcomes == {"cancelled", "cannot_be_cancelled", "error"}

DispatchOutcomes == {"dispatched", "error"}

InitCommands ==
    /\ graph \in CommandGraphs
    /\ call = Idle

\* One run of the cancel command; the set iteration order inside the root
\* and merge computations is any permutation of the keys.
CancelMain ==
    /\ call.op = "idle"
    /\ \E running \in RunningArgs, graph_found \in BOOLEAN, changed_files \in FileLists :
       \E plan \in {cancel_plan(running, graph_found, changed_files, graph, ord) :
                       ord \in Perms(Keys)} :
       \E listing \in RunListings :
          LET sel == cancel_select(plan, listing[1], listing[2])
          IN  \E outcomes \in [1..Len(sel.selected) -> CancelOutcomes] :
                 call' = [op |-> "cancel", running |-> running, graph_found |-> graph_found,
                          changed_files |-> changed_files,
                          in_progress |-> listing[1], queued |-> listing[2],
                          outcomes |-> outcomes,
                          result |-> cancel_finish(sel, outcomes)]
    /\ UNCHANGED graph

\* One run of the dispatch command.
DispatchMain ==
    /\ call.op = "idle"
    /\ \E running \in RunningArgs, graph_found \in BOOLEAN, changed_files \in FileLists :
       \E sel \in {dispatch_select(running, graph_found, changed_files, graph, ord) :
                      ord \in Perms(Keys)} :
       \E existing \in SUBSET Keys :
          LET to_dispatch == SelectSeq(sel.selected, LAMBDA wf : wf \in existing)
          IN  \E outcomes \in [1..Len(to_dispatch) -> DispatchOutcomes] :
                 call' = [op |-> "dispatch", running |-> running, graph_found |-> graph_found,
                          changed_files |-> changed_files, existing |-> existing,
                          outcomes |-> outcomes,
                          result |-> dispatch_finish(sel, existing, outcomes)]
    /\ UNCHANGED graph

NextCommands == CancelMain \/ DispatchMain

SpecCommands == InitCommands /\ [][NextCommands]_vars

\* ------------------------------------------------------------------ matcher runs
\* Paths are the strings over "a" and "/" of at most MaxPathLen characters,
\* patterns the strings over "a", "/", "*" and "?" of at most MaxPatternLen
\* characters; no graph is involved.
PathChars == {"a", "/"}

PatternChars == PathChars \cup {"*", "?"}

MatchPaths == SeqsUpTo(PathChars, MaxPathLen)

MatchPatterns == SeqsUpTo(PatternChars, MaxPatternLen)

\* the patterns "*", "a/*", "a/**", "**/a" and "?" in lists
ListedPatterns ==
    { <<"*">>, <<"a", "/", "*">>, <<"a", "/", "*", "*">>, <<"*", "*", "/", "a">>, <<"?">> }

MatchPatternLists == SeqsUpTo(ListedPatterns, MaxList)

InitMatch ==
    /\ graph = <<>>
    /\ call = Idle

CallFileMatchesPattern ==
    /\ call.op = "idle"
    /\ \E filepath \in MatchPaths, pattern \in MatchPatterns :
          call' = [op |-> "file_matches_pattern", filepath |-> filepath,
                   pattern |-> pattern,
                   result |-> file_matches_pattern(filepath, pattern)]
    /\ UNCHANGED graph

CallFileMatchesPatterns ==
    /\ call.op = "idle"
    /\ \E filepath \in MatchPaths, patterns \in MatchPatternLists :
          call' = [op |-> "file_matches_patterns", filepath |-> filepath,
                   patterns |-> patterns,
                   result |-> file_matches_patterns(filepath, patterns)]
    /\ UNCHANGED graph

NextMatch == CallFileMatchesPattern \/ CallFileMatchesPatterns

SpecMatch == InitMatch /\ [][NextMatch]_vars

\* ------------------------------------------------------------------ root and merge runs
\* Both root computations over one family of graph documents: every
\* depends_on list is duplicate-free and ascending, every workflow has one of
\* the two trigger pattern lists.
PlainDepLists == {d \in DepLists : \A i \in 1..(Len(d) - 1) : d[i] < d[i + 1]}

TriggerGraphs ==
    UNION {[D -> [depends_on : PlainDepLists, paths : PathLists]] : D \in SUBSET Keys}

InitMinimal ==
    /\ graph \in TriggerGraphs
    /\ call = Idle

NextMinimal == CallRootWorkflows \/ CallMergeRoots

SpecMinimal == InitMinimal /\ [][NextMinimal]_vars

\* ------------------------------------------------------------------ restart runs
\* A merge computation followed by a second one with the same new roots,
\* after the workflows of the first plan were restarted: the running list of
\* the second call is, in any order, the cancel set of the first merge roots,
\* or the merge roots themselves.
PlainGraphs == UNION {[D -> [depends_on : PlainDepLists]] : D \in SUBSET Keys}

InitRestart ==
    /\ graph \in PlainGraphs
    /\ call = Idle

\* the second call, with the given workflows running
merge_again(now_running, first) ==
    \E running \in Perms(now_running) :
    \E result \in {compute_merge_roots(running, first.new_roots, graph, ord) :
                      ord \in Perms((now_running \cup Range(first.new_roots))
                                        \cap DOMAIN graph)} :
       call' = [op |-> "compute_merge_roots_again", running |-> running,
                new_roots |-> first.new_roots, first |-> first.result,
                result |-> result]

RerunAfterCancel ==
    /\ call.op = "compute_merge_roots"
    /\ ~call.result.err
    /\ LET to_cancel == get_workflows_to_cancel(call.result.val, graph)
       IN  /\ ~to_cancel.err
           /\ merge_again(to_cancel.val, call)
    /\ UNCHANGED graph

RerunWithRootsRunning ==
    /\ call.op = "compute_merge_roots"
    /\ ~call.result.err
    /\ merge_again(Range(call.result.val), call)
    /\ UNCHANGED graph

NextRestart == CallMergeRoots \/ RerunAfterCancel \/ RerunWithRootsRunning

SpecRestart == InitRestart /\ [][NextRestart]_vars

\* ------------------------------------------------------------------ cascade runs
\* Workflows complete in any order, each at most once; a completion is
\* recorded by the platform as a successful run created at hour MaxHours, and
\* then starts the evaluation for that workflow.  Evaluations of different
\* workflows run concurrently and interleave query by query.  Before the
\* first completion the platform holds, for any workflow, no successful run or
\* one created at hour 0.
Waiting == [pc |-> "idle"]

InitCascade ==
    /\ graph \in PlainGraphs
    /\ \E runs \in [Keys -> {NoRun, 0}], lookback_hours \in 1..MaxHours :
          call = [op |-> "cascade", runs |-> runs, now |-> MaxHours,
                  lookback_hours |-> lookback_hours, completions |-> <<>>,
                  evaluation |-> [w \in Keys |-> Waiting]]

CompleteWorkflow ==
    /\ call.op = "cascade"
    /\ \E w \in Keys :
          /\ w \notin Range(call.completions)
          /\ call' = [call EXCEPT !.runs[w] = call.now,
                                  !.completions = Append(@, w)]
    /\ UNCHANGED graph

StartEvaluation ==
    /\ call.op = "cascade"
    /\ \E w \in Range(call.completions) :
          /\ call.evaluation[w].pc = "idle"
          /\ call' = [call EXCEPT !.evaluation[w] =
                         evaluation_advance(graph, w, evaluation_start(w))]
    /\ UNCHANGED graph

QueryDependency ==
    /\ call.op = "cascade"
    /\ \E w \in Keys :
          /\ call.evaluation[w].pc = "query"
          /\ call' = [call EXCEPT !.evaluation[w] =
                         evaluation_query(graph, w, call.evaluation[w], call.runs,
                                          call.now, call.lookback_hours)]
    /\ UNCHANGED graph

NextCascade == CompleteWorkflow \/ StartEvaluation \/ QueryDependency

SpecCascade == InitCascade /\ [][NextCascade]_vars

\* ------------------------------------------------------------------ both schedulers
\* topological_sort and topological_sort_levels applied to the same subset
\* of the same graph, each under any set iteration order.
CallSortAndLevels ==
    /\ call.op = "idle"
    /\ \E workflows \in SUBSET Keys :
       \E order \in {topological_sort(workflows, graph, ord) : ord \in Perms(workflows)},
          levels \in {topological_sort_levels(workflows, graph, ord) :
                         ord \in Perms(workflows)} :
          call' = [op |-> "sort_and_levels", workflows |-> workflows,
                   order |-> order, levels |-> levels]
    /\ UNCHANGED graph

NextSchedules == CallSortAndLevels

SpecSchedules == InitTopo /\ [][NextSchedules]_vars

\* ------------------------------------------------------------------ cached walks
\* A caller that keeps one ancestor cache and one descendant cache and makes
\* any sequence of walks over one graph, each either with its cache passed
\* in or with no cache argument.  last is the latest walk: the function, the
\* queried key, whether a cache was passed, whether the key was in it on
\* entry, and the returned set.  A walk that raises ends the caller.
NoWalk == [fn |-> "none"]

Crashed == [op |-> "crashed"]

InitCache ==
    /\ graph \in PlainGraphs
    /\ call = [op |-> "walks", ancestor_cache |-> EmptyDict,
               descendant_cache |-> EmptyDict, last |-> NoWalk]

AncestorsWithCache ==
    /\ call.op = "walks"
    /\ \E workflow \in Keys :
          LET r == get_all_ancestors(workflow, graph, call.ancestor_cache, 1)
          IN  call' = IF r.err THEN Crashed
                      ELSE [call EXCEPT
                               !.ancestor_cache = r.cache,
                               !.last = [fn |-> "get_all_ancestors", workflow |-> workflow,
                                         cached |-> TRUE,
                                         hit |-> workflow \in DOMAIN call.ancestor_cache,
                                         result |-> r.val]]
    /\ UNCHANGED graph

AncestorsNoCache ==
    /\ call.op = "walks"
    /\ \E workflow \in Keys :
          LET r == get_all_ancestors(workflow, graph, EmptyDict, 1)
          IN  call' = IF r.err THEN Crashed
                      ELSE [call EXCEPT
                               !.last = [fn |-> "get_all_ancestors", workflow |-> workflow,
                                         cached |-> FALSE, hit |-> FALSE,
                                         result |-> r.val]]
    /\ UNCHANGED graph

DescendantsWithCache ==
    /\ call.op = "walks"
    /\ \E workflow \in Keys :
          LET r == get_all_descendants(workflow, graph, call.descendant_cache, 1)
          IN  call' = IF r.err THEN Crashed
                      ELSE [call EXCEPT
                               !.descendant_cache = r.cache,
                               !.last = [fn |-> "get_all_descendants", workflow |-> workflow,
                                         cached |-> TRUE,
                                         hit |-> workflow \in DOMAIN call.descendant_cache,
                                         result |-> r.val]]
    /\ UNCHANGED graph

DescendantsNoCache ==
    /\ call.op = "walks"
    /\ \E workflow \in Keys :
          LET r == get_all_descendants(workflow, graph, EmptyDict, 1)
          IN  call' = IF r.err THEN Crashed
                      ELSE [call EXCEPT
                               !.last = [fn |-> "get_all_descendants", workflow |-> workflow,
                                         cached |-> FALSE, hit |-> FALSE,
                                         result |-> r.val]]
    /\ UNCHANGED graph

NextCache ==
    \/ AncestorsWithCache
    \/ AncestorsNoCache
    \/ DescendantsWithCache
    \/ DescendantsNoCache

SpecCache == InitCache /\ [][NextCache]_vars

\* ------------------------------------------------------------------ reference notions
\* The dependency relation of a graph and its transitive closure, as sets.
DirectDeps(g, k) == IF k \in DOMAIN g THEN Range(g[k].depends_on) ELSE {}

RECURSIVE UpClosure(_, _)
UpClosure(g, S) ==
    LET T == S \cup UNION {DirectDeps(g, k) : k \in S}
    IN  IF T = S THEN S ELSE UpClosure(g, T)

TransitiveAncestors(g, k) == UpClosure(g, DirectDeps(g, k))

TransitiveDescendants(g, k) == {d \in DOMAIN g : k \in TransitiveAncestors(g, d)}

IsAcyclic(g) == \A k \in DOMAIN g : k \notin TransitiveAncestors(g, k)

HasDangling(g) == \E k \in DOMAIN g : ~(DirectDeps(g, k) \subseteq DOMAIN g)

StrictlyAscending(lst) == \A i \in 1..(Len(lst) - 1) : lst[i] < lst[i + 1]

MinimalOf(g, S) == {k \in S : TransitiveAncestors(g, k) \cap S = {}}

MergeCalled == call.op = "compute_merge_roots"

MergeAffected == (Range(call.running) \cup Range(call.new_roots)) \cap DOMAIN graph

RootsCalled == call.op = "compute_root_workflows"

RootsAffected ==
    {k \in DOMAIN graph :
        \E n \in 1..Len(call.changed_files), m \in 1..Len(paths_of(graph, k)) :
            file_matches_pattern(call.changed_files[n], paths_of(graph, k)[m])}

\* ------------------------------------------------------------------ claims
\* C1: on an acyclic graph and with new_roots non-empty, compute_merge_roots
\* returns exactly the strictly ascending (sorted, duplicate-free) list of the
\* keys of (running \cup new_roots) \cap keys(G) that have no transitive ancestor
\* in that set.
C1_MergeRootsExact ==
    (MergeCalled /\ IsAcyclic(graph) /\ call.new_roots # <<>>) =>
        /\ ~call.result.err
        /\ StrictlyAscending(call.result.val)
        /\ Range(call.result.val) = MinimalOf(graph, MergeAffected)

\* C1 witness: a running key and a new root unrelated by ancestry are both
\* kept while a third input key, a descendant, is dropped, and the set was
\* iterated in descending order.
C1_Witness ==
    /\ MergeCalled /\ IsAcyclic(graph)
    /\ call.running # <<>> /\ call.new_roots # <<>>
    /\ Cardinality(MergeAffected) = 3
    /\ ~call.result.err /\ Len(call.result.val) = 2
    /\ \E r \in Range(call.running), n \in Range(call.new_roots) :
          r # n /\ call.result.val = <<r, n>>
    /\ call.ord[1] > call.ord[2]

\* C2: on an acyclic graph compute_root_workflows returns exactly the strictly
\* ascending list of the affected workflows none of whose transitive ancestors
\* is affected, and the empty list when no workflow is affected.
C2_RootWorkflowsExact ==
    (RootsCalled /\ IsAcyclic(graph)) =>
        /\ ~call.result.err
        /\ StrictlyAscending(call.result.val)
        /\ Range(call.result.val) = MinimalOf(graph, RootsAffected)
        /\ (RootsAffected = {} => call.result.val = <<>>)

\* C2 witness: two changed files affect all three workflows through different
\* patterns, one affected workflow has an affected ancestor and is left out.
C2_Witness ==
    /\ RootsCalled /\ IsAcyclic(graph)
    /\ Len(call.changed_files) = 2
    /\ Cardinality(RootsAffected) = 3
    /\ \E k1, k2 \in DOMAIN graph : paths_of(graph, k1) # paths_of(graph, k2)
    /\ ~call.result.err /\ Len(call.result.val) = 2
    /\ call.ord[1] > call.ord[2]

\* C3 (as stated): for any running list, any new_roots list and any acyclic
\* graph, the merge roots together with the descendants of each cover every
\* key of running and of new_roots that is in the graph.
C3_CoverAnyNewRoots ==
    (MergeCalled /\ IsAcyclic(graph)) =>
        /\ ~call.result.err
        /\ LET covered == get_workflows_to_cancel(call.result.val, graph)
           IN  ~covered.err /\ MergeAffected \subseteq covered.val

\* C3 (amended): the same, for non-empty new_roots.
C3_CoverNonEmptyNewRoots ==
    (MergeCalled /\ IsAcyclic(graph) /\ call.new_roots # <<>>) =>
        /\ ~call.result.err
        /\ LET covered == get_workflows_to_cancel(call.result.val, graph)
           IN  ~covered.err /\ MergeAffected \subseteq covered.val

\* C3 witness: a running key of the graph is not among the merge roots and is
\* covered only as a descendant of a merge root.
C3_Witness ==
    /\ MergeCalled /\ IsAcyclic(graph) /\ call.new_roots # <<>>
    /\ ~call.result.err
    /\ \E r \in Range(call.running) \cap DOMAIN graph :
          /\ r \notin Range(call.result.val)
          /\ r \in get_workflows_to_cancel(call.result.val, graph).val

\* C4: compute_merge_roots returns the empty list whenever new_roots is empty,
\* for every running list and every graph.
C4_EmptyNewRootsGivesEmpty ==
    (MergeCalled /\ call.new_roots = <<>>) => call.result = Ok(<<>>)

\* C4 witness: new_roots is empty while two running workflows are keys of the graph.
C4_Witness ==
    /\ MergeCalled /\ call.new_roots = <<>>
    /\ Cardinality(Range(call.running) \cap DOMAIN graph) = 2
    /\ call.result = Ok(<<>>)

\* C5: on an acyclic graph, for distinct keys r and n of the graph one of which
\* is a strict transitive ancestor of the other, compute_merge_roots([r], [n], G)
\* is the one-element list holding the ancestor, whichever argument carried it.
C5_AncestorWins ==
    (/\ MergeCalled /\ IsAcyclic(graph)
     /\ Len(call.running) = 1 /\ Len(call.new_roots) = 1
     /\ call.running[1] \in DOMAIN graph /\ call.new_roots[1] \in DOMAIN graph
     /\ call.running[1] # call.new_roots[1]) =>
        LET r == call.running[1]
            n == call.new_roots[1]
        IN  /\ (n \in TransitiveAncestors(graph, r) => call.result = Ok(<<n>>))
            /\ (r \in TransitiveAncestors(graph, n) => call.result = Ok(<<r>>))

\* C5 witness: the running workflow depends on the new root only transitively
\* (through a third workflow) and the new root alone is returned.
C5_Witness ==
    /\ MergeCalled /\ IsAcyclic(graph)
    /\ Len(call.running) = 1 /\ Len(call.new_roots) = 1
    /\ call.running[1] \in DOMAIN graph /\ call.new_roots[1] \in DOMAIN graph
    /\ call.new_roots[1] \in TransitiveAncestors(graph, call.running[1])
    /\ call.new_roots[1] \notin DirectDeps(graph, call.running[1])
    /\ call.result = Ok(<<call.new_roots[1]>>)

\* C6 (as stated): for a graph with dangling depends_on entries and input
\* lists naming keys absent from the graph, compute_merge_roots raises no
\* error, returns only keys of the graph that occur in running or new_roots,
\* and returns [] when no input key is in the graph.
C6_UnknownKeysNoError ==
    (/\ MergeCalled /\ HasDangling(graph)
     /\ ~((Range(call.running) \cup Range(call.new_roots)) \subseteq DOMAIN graph)) =>
        /\ ~call.result.err
        /\ Range(call.result.val) \subseteq DOMAIN graph
        /\ Range(call.result.val) \subseteq Range(call.running) \cup Range(call.new_roots)
        /\ (MergeAffected = {} => call.result.val = <<>>)

\* ------------------------------------------------------------------ scheduler claims
SortCalled == call.op = "topological_sort"

LevelsCalled == call.op = "topological_sort_levels"

Before(lst, a, b) == \E i, j \in 1..Len(lst) : i < j /\ lst[i] = a /\ lst[j] = b

InSubsetDeps(w) == DirectDeps(graph, w) \cap call.workflows

\* Ancestors along dependency edges that stay inside the workflow subset.
RECURSIVE InducedClosure(_, _)
InducedClosure(W, S) ==
    LET T == S \cup UNION {DirectDeps(graph, k) \cap W : k \in S}
    IN  IF T = S THEN S ELSE InducedClosure(W, T)

InducedAncestors(W, k) == InducedClosure(W, DirectDeps(graph, k) \cap W)

\* On a cycle inside the subset, or depending inside the subset on such a cycle.
CycleBound(W) ==
    {w \in W : \E a \in InducedAncestors(W, w) \cup {w} : a \in InducedAncestors(W, a)}

\* C7 (as stated): for every graph and every subset, each w of workflows and
\* each of its dependencies d inside workflows are both in the list returned by
\* topological_sort, d at a smaller index than w.
C7_EveryDependencyBefore ==
    SortCalled =>
        /\ ~call.result.hang
        /\ \A w \in call.workflows : \A d \in InSubsetDeps(w) :
              Before(call.result.val, d, w)

\* C7 (amended): for every graph and every subset, each w in the list
\* returned by topological_sort has every dependency d that is inside
\* workflows in the list at a smaller index than w.
C7_ReturnedDependencyBefore ==
    SortCalled =>
        /\ ~call.result.hang
        /\ \A w \in Range(call.result.val) : \A d \in InSubsetDeps(w) :
              Before(call.result.val, d, w)

\* C7 witness: a returned workflow follows a dependency whose key sorts after
\* its own, so the lexicographic order alone would have put it first.
C7_Witness ==
    /\ SortCalled /\ ~call.result.hang
    /\ \E w \in Range(call.result.val) : \E d \in InSubsetDeps(w) :
          w < d /\ Before(call.result.val, d, w)

\* C8: in the levels returned by topological_sort_levels no two workflows of
\* one level depend on each other, and each workflow's level index is strictly
\* greater than the level index of each of its dependencies inside workflows.
C8_LevelsRespectDependencies ==
    LevelsCalled =>
        /\ ~call.result.hang
        /\ \A i \in 1..Len(call.result.val) : \A w \in Range(call.result.val[i]) :
              /\ \A v \in Range(call.result.val[i]) : v \notin DirectDeps(graph, w)
              /\ \A d \in InSubsetDeps(w) :
                    \E j \in 1..(i - 1) : d \in Range(call.result.val[j])

\* C8 witness: a level holding two workflows comes after the level of their
\* common dependency.
C8_Witness ==
    /\ LevelsCalled /\ ~call.result.hang
    /\ \E i \in 2..Len(call.result.val) :
          /\ Len(call.result.val[i]) = 2
          /\ \A w \in Range(call.result.val[i]) :
                \E d \in InSubsetDeps(w) : d \in Range(call.result.val[i - 1])

\* C9 (as stated): on every graph, cyclic or not, topological_sort and
\* topological_sort_levels terminate and return exactly the workflows of the
\* subset that neither lie on a cycle nor depend, inside the subset, on one.
C9_OnlyCycleBoundOmitted ==
    /\ SortCalled =>
          /\ ~call.result.hang
          /\ Range(call.result.val) = call.workflows \ CycleBound(call.workflows)
    /\ LevelsCalled =>
          /\ ~call.result.hang
          /\ UNION {Range(call.result.val[i]) : i \in 1..Len(call.result.val)}
                = call.workflows \ CycleBound(call.workflows)

\* ------------------------------------------------------------------ resolver claims
\* C10 (as stated): on a graph with a dependency cycle get_all_ancestors,
\* get_all_descendants and compute_execution_plan terminate and return a
\* value; none ends in an error.
C10_WalksReturnOnCycles ==
    (/\ call.op \in {"get_all_ancestors", "get_all_descendants", "compute_execution_plan"}
     /\ ~IsAcyclic(graph)) =>
        ~call.result.err

\* C11: on an acyclic graph (dangling depends_on entries allowed), for all
\* keys k and d, d is in get_all_descendants(k, G) exactly when k is in
\* get_all_ancestors(d, G), each computed with a fresh cache.
C11_AncestorsDescendantsInverse ==
    IsAcyclic(graph) =>
        /\ call.op = "get_all_descendants" =>
              /\ ~call.result.err
              /\ \A d \in Keys :
                    LET anc == get_all_ancestors(d, graph, EmptyDict, 1)
                    IN  ~anc.err /\ (d \in call.result.val <=> call.workflow \in anc.val)
        /\ call.op = "get_all_ancestors" =>
              /\ ~call.result.err
              /\ \A k \in Keys :
                    LET desc == get_all_descendants(k, graph, EmptyDict, 1)
                    IN  ~desc.err /\ (k \in call.result.val <=> call.workflow \in desc.val)

\* C11 witness: the queried key is a dangling reference (no key of the graph)
\* and has a direct and a transitive-only descendant.
C11_Witness ==
    /\ call.op = "get_all_descendants" /\ IsAcyclic(graph)
    /\ call.workflow \notin DOMAIN graph
    /\ ~call.result.err
    /\ \E d1, d2 \in call.result.val :
          /\ call.workflow \in DirectDeps(graph, d1)
          /\ call.workflow \notin DirectDeps(graph, d2)
          /\ call.workflow \in get_all_ancestors(d2, graph, EmptyDict, 1).val

\* C12: on an acyclic graph no key is a member of its own ancestor set or of
\* its own descendant set.
C12_NeverOwnAncestorOrDescendant ==
    (/\ call.op \in {"get_all_ancestors", "get_all_descendants"}
     /\ IsAcyclic(graph)) =>
        /\ ~call.result.err
        /\ call.workflow \notin call.result.val

\* C12 witness: a key with two ancestors, one of them reached along two
\* paths, is asked for its ancestors.
C12_Witness ==
    /\ call.op = "get_all_ancestors" /\ IsAcyclic(graph)
    /\ ~call.result.err
    /\ Cardinality(call.result.val) = 2
    /\ Cardinality(DirectDeps(graph, call.workflow)) = 2
    /\ \E a \in call.result.val : DirectDeps(graph, a) \cap call.result.val # {}
    /\ call.workflow \notin call.result.val


PlanCalled == call.op \in {"compute_execution_plan", "compute_execution_plan_levels"}

\* The roots of the call and every transitive descendant of a root.
RootsAndDescendants(roots) ==
    Range(roots) \cup UNION {TransitiveDescendants(graph, r) : r \in Range(roots)}

Flatten(levels) == UNION {Range(levels[i]) : i \in 1..Len(levels)}

RECURSIVE TotalLen(_)
TotalLen(levels) ==
    IF levels = <<>> THEN 0 ELSE Len(Head(levels)) + TotalLen(Tail(levels))

\* C13 (as stated): for an acyclic graph and roots that are keys of it,
\* compute_execution_plan returns a list holding every root and every
\* transitive descendant of a root exactly once and nothing else, each
\* workflow after all of its dependencies that are in the plan, and
\* compute_execution_plan_levels partitions the same set into levels.
C13_PlanIsRootsAndDescendants ==
    (PlanCalled /\ IsAcyclic(graph) /\ Range(call.roots) \subseteq DOMAIN graph) =>
        /\ ~call.result.err /\ ~call.result.hang
        /\ call.op = "compute_execution_plan" =>
              /\ Range(call.result.val) = RootsAndDescendants(call.roots)
              /\ Len(call.result.val) = Cardinality(Range(call.result.val))
              /\ \A w \in Range(call.result.val) :
                    \A d \in DirectDeps(graph, w) \cap Range(call.result.val) :
                        Before(call.result.val, d, w)
        /\ call.op = "compute_execution_plan_levels" =>
              /\ Flatten(call.result.val) = RootsAndDescendants(call.roots)
              /\ TotalLen(call.result.val) = Cardinality(Flatten(call.result.val))


CancelSetCalled == call.op = "get_workflows_to_cancel"

\* C14 (as stated): for every graph get_workflows_to_cancel returns exactly
\* the set of the merge roots together with all transitive descendants of
\* each merge root, and the empty set for empty merge_roots.
C14_CancelSetIsRootsAndDescendants ==
    CancelSetCalled =>
        /\ ~call.result.err
        /\ call.result.val = RootsAndDescendants(call.merge_roots)
        /\ (call.merge_roots = <<>> => call.result.val = {})


\* ------------------------------------------------------------------ readiness claims
StatusCalled == call.op = "compute_descendants_status"

DirectDependents(c) == {d \in DOMAIN graph : c \in DirectDeps(graph, d)}

\* The latest successful run of e is at most lookback_hours old.
SucceededInWindow(e) ==
    call.runs[e] # NoRun /\ call.now - call.runs[e] <= call.lookback_hours

Occurrences(lst, x) == Cardinality({i \in 1..Len(lst) : lst[i] = x})

\* C15: compute_descendants_status places every direct dependent d of the
\* completed workflow c in exactly one of ready and waiting and no other
\* workflow in either; d is in ready exactly when every entry of
\* depends_on(d) other than c has a successful run inside the lookback
\* window, whatever the run history of c itself.
C15_DirectDependentsPartitioned ==
    StatusCalled =>
        LET c == call.workflow
            ready == call.result.ready
            waiting == call.result.waiting
        IN  /\ Range(ready) \cup DOMAIN waiting = DirectDependents(c)
            /\ Range(ready) \cap DOMAIN waiting = {}
            /\ \A d \in Range(ready) : Occurrences(ready, d) = 1
            /\ \A d \in DirectDependents(c) :
                  d \in Range(ready) <=>
                      \A e \in DirectDeps(graph, d) \ {c} : SucceededInWindow(e)

\* C15 witness: the completed workflow has no successful run on record; one
\* direct dependent with another, satisfied dependency is ready, another is
\* waiting, and a workflow depends on the completed one only transitively.
C15_Witness ==
    /\ StatusCalled
    /\ call.runs[call.workflow] = NoRun
    /\ \E d \in Range(call.result.ready) :
          \E e \in DirectDeps(graph, d) \ {call.workflow} : SucceededInWindow(e)
    /\ DOMAIN call.result.waiting # {}
    /\ \E t \in TransitiveDescendants(graph, call.workflow) :
          t \notin DirectDependents(call.workflow)


\* ------------------------------------------------------------------ determinism claims
\* The ascending duplicate-free list of a set of keys.
RECURSIVE AscendingList(_)
AscendingList(S) ==
    IF S = {} THEN <<>>
    ELSE LET least == CHOOSE x \in S : \A y \in S : x <= y
         IN  <<least>> \o AscendingList(S \ {least})

\* C16: the outcome of compute_merge_roots depends only on the set of running
\* keys, the set of new roots and the graph: every call, whatever the order
\* and duplication of its two lists and whatever the set iteration order,
\* has the outcome of the call on the ascending duplicate-free lists of the
\* same two sets with ascending iteration order (hence any two calls on the
\* same sets and graph have the same outcome).
C16_MergeRootsDependOnSetsOnly ==
    MergeCalled =>
        call.result = compute_merge_roots(AscendingList(Range(call.running)),
                                          AscendingList(Range(call.new_roots)),
                                          graph, AscendingList(MergeAffected))

\* C16 witness: the running list is in descending order, the new-roots list
\* repeats its key, the set is iterated in descending order and two merge
\* roots are returned.
C16_Witness ==
    /\ MergeCalled
    /\ Len(call.running) = 2 /\ call.running[1] > call.running[2]
    /\ Len(call.new_roots) = 2 /\ call.new_roots[1] = call.new_roots[2]
    /\ Cardinality(MergeAffected) = 3
    /\ call.ord[1] > call.ord[2] /\ call.ord[2] > call.ord[3]
    /\ ~call.result.err /\ Len(call.result.val) = 2


\* One duplicate-free listing of a set of file paths.
ListingOf(S) == CHOOSE p \in Perms(S) : TRUE

\* C17: compute_root_workflows gives a changed-file list and any list
\* obtained from it by repeating or reordering entries the same outcome:
\* every call has the outcome of the call on one fixed duplicate-free listing
\* of the set of its changed files (under the same set iteration order).
C17_RootsIgnoreFileOrderAndRepeats ==
    RootsCalled =>
        call.result = compute_root_workflows(ListingOf(Range(call.changed_files)),
                                             graph, call.ord)

\* C17 witness: a list repeating one file, and a list of two files in the
\* order opposite to the fixed listing, each affecting workflows and yielding
\* roots.
C17_Witness ==
    /\ RootsCalled
    /\ Len(call.changed_files) = 2
    /\ call.changed_files # ListingOf(Range(call.changed_files))
    /\ Cardinality(RootsAffected) >= 2
    /\ \E k \in RootsAffected : k \notin Range(call.result.val)
    /\ ~call.result.err /\ call.result.val # <<>>


\* ------------------------------------------------------------------ command claims
CommandCalled == call.op \in {"cancel", "dispatch"}

\* The calls the loop owes: the id of every selected run, respectively every
\* root whose workflow file exists, in order.
OwedCalls ==
    IF call.op = "cancel"
    THEN [i \in 1..Len(call.result.selected) |-> call.result.selected[i].id]
    ELSE SelectSeq(call.result.selected, LAMBDA wf : wf \in call.existing)

\* The external command of the i-th call ended with a non-zero status.
CallFailed(i) ==
    IF call.op = "cancel" THEN call.outcomes[i] # "cancelled"
    ELSE call.outcomes[i] # "dispatched"

\* The same, a cancel call refused as "cannot be cancelled" not counted.
CallFailedUnrefused(i) == call.outcomes[i] = "error"

\* C18 (as stated): in a command that reaches its loop a call is attempted
\* for every selected run (every root whose workflow file exists) whatever
\* the outcome of earlier calls, and the command returns 1 if at least one of
\* these calls failed and 0 otherwise.
C18_ReturnsOneIffACallFailed ==
    (CommandCalled /\ call.result.loop) =>
        /\ call.result.attempted = OwedCalls
        /\ call.result.rc = IF \E i \in 1..Len(call.outcomes) : CallFailed(i) THEN 1 ELSE 0

\* C18 (amended): the same, where a cancel call that ends with a non-zero
\* status and the message that the run cannot be cancelled counts as
\* succeeded.
C18_ReturnsOneIffACallFailedUnrefused ==
    (CommandCalled /\ call.result.loop) =>
        /\ call.result.attempted = OwedCalls
        /\ call.result.rc =
              IF \E i \in 1..Len(call.outcomes) : CallFailedUnrefused(i) THEN 1 ELSE 0

\* C18 witness: two runs are selected, the cancel call for the first fails
\* and the second is attempted all the same; the command returns 1.
C18_Witness ==
    /\ call.op = "cancel" /\ call.result.loop
    /\ Len(call.result.selected) = 2
    /\ call.outcomes[1] = "error" /\ call.outcomes[2] = "cancelled"
    /\ Len(call.result.attempted) = 2
    /\ call.result.rc = 1


\* ------------------------------------------------------------------ matcher claims
MatchCalled == call.op = "file_matches_pattern"

HasMarker(pattern) ==
    \E i \in 1..(Len(pattern) - 1) : pattern[i] = "*" /\ pattern[i + 1] = "*"

\* The text of the pattern before its first "**".
BeforeMarker(pattern) ==
    LET first == CHOOSE i \in 1..(Len(pattern) - 1) :
                    /\ pattern[i] = "*" /\ pattern[i + 1] = "*"
                    /\ \A k \in 1..(i - 1) : ~(pattern[k] = "*" /\ pattern[k + 1] = "*")
    IN  [k \in 1..(first - 1) |-> pattern[k]]

HasPrefix(path, prefix) ==
    /\ Len(prefix) <= Len(path)
    /\ \A k \in 1..Len(prefix) : path[k] = prefix[k]

\* Glob matching by the set of path positions reachable after each pattern
\* character: "*" reaches every position from a reached one on, "?" and a
\* literal the next position.
RECURSIVE GlobReach(_, _, _, _)
GlobReach(path, pattern, j, reached) ==
    IF j > Len(pattern) THEN reached
    ELSE GlobReach(path, pattern, j + 1,
            IF pattern[j] = "*"
            THEN {q \in 0..Len(path) : \E r \in reached : r <= q}
            ELSE {r + 1 : r \in {x \in reached :
                                    /\ x < Len(path)
                                    /\ (pattern[j] = "?" \/ path[x + 1] = pattern[j])}})

GlobMatches(path, pattern) == Len(path) \in GlobReach(path, pattern, 1, {0})

\* C19: for a pattern containing "**", file_matches_pattern is true whenever
\* the path starts with the text of the pattern before its first "**",
\* whatever follows the marker, and false for a path that neither starts with
\* that text nor glob-matches the pattern.
C19_PrefixBeforeMarkerMatches ==
    (MatchCalled /\ HasMarker(call.pattern)) =>
        /\ HasPrefix(call.filepath, BeforeMarker(call.pattern)) => call.result
        /\ (/\ ~HasPrefix(call.filepath, BeforeMarker(call.pattern))
            /\ ~GlobMatches(call.filepath, call.pattern)) => ~call.result

\* C19 witness: the path starts with the non-empty text before the marker
\* and does not glob-match the pattern, whose marker is followed by more
\* text; it is matched.
C19_Witness ==
    /\ MatchCalled /\ HasMarker(call.pattern)
    /\ BeforeMarker(call.pattern) # <<>>
    /\ Len(call.pattern) > Len(BeforeMarker(call.pattern)) + 2
    /\ HasPrefix(call.filepath, BeforeMarker(call.pattern))
    /\ ~GlobMatches(call.filepath, call.pattern)
    /\ call.result

\* C20 (as stated): an empty pattern list matches no file path, and no
\* pattern matches the empty file path, "*" and patterns containing "**"
\* included.
C20_EmptyNeverMatches ==
    /\ (call.op = "file_matches_patterns" /\ call.patterns = <<>>) => ~call.result
    /\ (MatchCalled /\ call.filepath = <<>>) => ~call.result

OnlyStars(pattern) == \A k \in 1..Len(pattern) : pattern[k] = "*"

BeginsWithMarker(pattern) ==
    Len(pattern) >= 2 /\ pattern[1] = "*" /\ pattern[2] = "*"

\* C20 (amended): an empty pattern list matches no file path; the empty file
\* path is matched by exactly the patterns that are empty, consist only of
\* "*" characters, or begin with "**", and by no other pattern.
C20_EmptyPathMatchedByStarsOnly ==
    /\ (call.op = "file_matches_patterns" /\ call.patterns = <<>>) => ~call.result
    /\ (MatchCalled /\ call.filepath = <<>>) =>
          (call.result <=> \/ call.pattern = <<>>
                           \/ OnlyStars(call.pattern)
                           \/ BeginsWithMarker(call.pattern))

\* C20 witness: the empty path is matched by a pattern that begins with "**"
\* and goes on with literal text.
C20_Witness ==
    /\ MatchCalled /\ call.filepath = <<>>
    /\ BeginsWithMarker(call.pattern) /\ ~OnlyStars(call.pattern)
    /\ call.result


\* ------------------------------------------------------------------ scheduler order claims
Emitted(lst, i) == {lst[j] : j \in 1..(i - 1)}

\* The workflows not yet emitted before position i whose dependencies inside
\* the subset have all been emitted.
ReadyAt(lst, i) ==
    {w \in call.workflows \ Emitted(lst, i) : InSubsetDeps(w) \subseteq Emitted(lst, i)}

\* C21 (as stated): every workflow topological_sort appends is the smallest
\* of the workflows not yet emitted whose in-subset dependencies have all been
\* emitted, and the returned order is the same for every set iteration order.
C21_SmallestReadyFirst ==
    SortCalled =>
        /\ ~call.result.hang
        /\ \A i \in 1..Len(call.result.val) :
              /\ call.result.val[i] \in ReadyAt(call.result.val, i)
              /\ \A w \in ReadyAt(call.result.val, i) : call.result.val[i] <= w
        /\ call.result = topological_sort(call.workflows, graph, AscendingList(call.workflows))

Declares(w) == w \in DOMAIN graph /\ "display_order" \in DOMAIN graph[w]

\* (display_order, key) of a before that of b, for workflows that declare one
DeclaredPairLess(a, b) ==
    \/ graph[a].display_order < graph[b].display_order
    \/ (graph[a].display_order = graph[b].display_order /\ a < b)

\* C22 (as stated): in every level returned by topological_sort_levels the
\* workflows that declare a display_order are in ascending order of
\* (display_order, key), the workflows that declare none are in ascending key
\* order, and no workflow that declares none comes before one that declares
\* one, whatever the declared value.
C22_LevelsSortedMissingLast ==
    LevelsCalled =>
        /\ ~call.result.hang
        /\ \A n \in 1..Len(call.result.val) :
              LET level == call.result.val[n]
              IN  \A i, j \in 1..Len(level) : i < j =>
                     /\ (Declares(level[i]) /\ Declares(level[j])) =>
                            DeclaredPairLess(level[i], level[j])
                     /\ (~Declares(level[i]) /\ ~Declares(level[j])) => level[i] < level[j]
                     /\ ~(~Declares(level[i]) /\ Declares(level[j]))

\* The display_order a workflow sorts by: the declared one, or the default.
OrderOf(w) == IF Declares(w) THEN graph[w].display_order ELSE DefaultDisplayOrder

\* C22 (amended): in every level returned by topological_sort_levels the
\* workflows are in ascending order of (display_order, key), a workflow that
\* declares no display_order counting as one that declares the default 999:
\* it comes after every workflow of the level that declares less than 999,
\* before every one that declares more, and in key order with one that
\* declares exactly 999.
C22_LevelsSortedWithDefault ==
    LevelsCalled =>
        /\ ~call.result.hang
        /\ \A n \in 1..Len(call.result.val) :
              LET level == call.result.val[n]
              IN  \A i, j \in 1..Len(level) : i < j =>
                     \/ OrderOf(level[i]) < OrderOf(level[j])
                     \/ (OrderOf(level[i]) = OrderOf(level[j]) /\ level[i] < level[j])

\* C22 witness: one level holds, in this order, a workflow that declares less
\* than the default, a workflow of a smaller key that declares nothing, and a
\* workflow of a still smaller key that declares more than the default.
C22_Witness ==
    /\ LevelsCalled /\ ~call.result.hang
    /\ \E n \in 1..Len(call.result.val) :
          LET level == call.result.val[n]
          IN  /\ Len(level) = 3
              /\ Declares(level[1]) /\ graph[level[1]].display_order < DefaultDisplayOrder
              /\ ~Declares(level[2]) /\ level[2] < level[1]
              /\ Declares(level[3]) /\ graph[level[3]].display_order > DefaultDisplayOrder
              /\ level[3] < level[2]


\* ------------------------------------------------------------------ minimality claims
\* C23: on an acyclic graph, compute_root_workflows and compute_merge_roots
\* return without error, and no key of the returned list is a transitive
\* ancestor (hence none a transitive descendant) of another key of the list.
C23_RootSetsMinimal ==
    ((RootsCalled \/ MergeCalled) /\ IsAcyclic(graph)) =>
        /\ ~call.result.err
        /\ \A a, b \in Range(call.result.val) :
              a # b => a \notin TransitiveAncestors(graph, b)

\* C23 witness: compute_root_workflows on an acyclic graph returns two roots
\* and leaves out a third affected workflow, which has one of them as a
\* transitive ancestor.
C23_Witness ==
    /\ RootsCalled /\ IsAcyclic(graph) /\ ~call.result.err
    /\ Len(call.result.val) = 2
    /\ \E k \in RootsAffected \ Range(call.result.val) :
          TransitiveAncestors(graph, k) \cap Range(call.result.val) # {}

\* The same case for compute_merge_roots.
C23_WitnessMerge ==
    /\ MergeCalled /\ IsAcyclic(graph) /\ ~call.result.err
    /\ Len(call.result.val) = 2
    /\ \E k \in MergeAffected \ Range(call.result.val) :
          TransitiveAncestors(graph, k) \cap Range(call.result.val) # {}


\* ------------------------------------------------------------------ cancel command claims
CancelCalled == call.op = "cancel"

\* The workflows one of whose trigger patterns matches a changed file.
ChangedWorkflows ==
    {k \in DOMAIN graph :
        \E n \in 1..Len(call.changed_files), m \in 1..Len(graph[k].paths) :
            file_matches_pattern(call.changed_files[n], graph[k].paths[m])}

ListedRuns == call.in_progress \o call.queued

\* C24: the cancel command makes no cancel call and returns 0 when the
\* running list is empty, and when the graph is loaded and no workflow is
\* triggered by the changed files (so there are no new roots and no merge
\* roots), whatever runs the platform lists.
C24_NoNewChangesNoCancel ==
    (/\ CancelCalled /\ ~call.running.err
     /\ \/ call.running.val = <<>>
        \/ (call.graph_found /\ ChangedWorkflows = {})) =>
        /\ call.result.rc = 0
        /\ call.result.attempted = <<>>
        /\ ~call.result.loop

\* C24 witness: a workflow is running, its run is listed by the platform under
\* its display name, the changed files trigger no workflow, and the command
\* returns 0 with no cancel call.
C24_Witness ==
    /\ CancelCalled /\ ~call.running.err /\ call.running.val # <<>>
    /\ call.graph_found /\ call.changed_files # <<>> /\ ChangedWorkflows = {}
    /\ \E i \in 1..Len(ListedRuns) : \E k \in Range(call.running.val) :
          ListedRuns[i].name = graph[k].name
    /\ call.result.rc = 0 /\ call.result.attempted = <<>>

\* The command got past its argument and graph checks.
CancelReachedRoots == ~call.running.err /\ call.running.val # <<>> /\ call.graph_found

\* The merge roots of the run, from the dependency relation: none without new
\* roots, else the running workflows and new roots with no ancestor among them.
MergeRootsOf(new_roots) ==
    IF new_roots = {} THEN {}
    ELSE MinimalOf(graph, (Range(call.running.val) \cap DOMAIN graph) \cup new_roots)

CancelSetOf(merge_roots) ==
    merge_roots \cup UNION {TransitiveDescendants(graph, r) : r \in merge_roots}

RunCancelSet ==
    LET changed == ChangedWorkflows
        new_roots == MinimalOf(graph, changed)
        merge_roots == MergeRootsOf(new_roots)
    IN  CancelSetOf(merge_roots)

\* The key a display name maps to: the last workflow of the document with
\* that name; the empty name maps to none.
NamedBy(name) == {k \in DOMAIN graph : name # "" /\ graph[k].name = name}

InSet(run, keys) ==
    /\ NamedBy(run.name) # {}
    /\ (CHOOSE k \in NamedBy(run.name) : \A j \in NamedBy(run.name) : j <= k) \in keys

\* C25: the runs the cancel command makes a cancel call for are exactly the
\* listed in_progress and queued runs whose display name maps, through the
\* graph's name-to-key map, to a merge root or a descendant of one; a run of
\* a workflow outside that set, or with a name unknown to the graph, gets no
\* call, and no call is made when the command stops before its listing.
C25_CancelsExactlyListedRunsInSet ==
    CancelCalled =>
        IF CancelReachedRoots /\ ListedRuns # <<>>
        THEN LET keys == RunCancelSet
                 chosen == SelectSeq(ListedRuns, LAMBDA run : InSet(run, keys))
             IN  call.result.attempted = [i \in 1..Len(chosen) |-> chosen[i].id]
        ELSE call.result.attempted = <<>>

\* C25 witness: of two listed runs that carry names of workflows of the
\* graph, one is of a workflow to cancel and gets the only cancel call, the
\* other is of a workflow outside the set.
C25_Witness ==
    /\ CancelCalled /\ CancelReachedRoots
    /\ Len(ListedRuns) = 2
    /\ \A i \in 1..2 : NamedBy(ListedRuns[i].name) # {}
    /\ \E i \in 1..2 : ~InSet(ListedRuns[i], RunCancelSet)
    /\ Len(call.result.attempted) = 1


\* ------------------------------------------------------------------ completeness claims
\* C26 (as stated): on an acyclic graph, repeated depends_on entries allowed,
\* topological_sort returns every workflow of the subset exactly once, and
\* topological_sort_levels places every workflow of the subset in exactly one
\* level, once.
C26_EveryWorkflowExactlyOnce ==
    IsAcyclic(graph) =>
        /\ SortCalled =>
              /\ ~call.result.hang
              /\ Len(call.result.val) = Cardinality(call.workflows)
              /\ Range(call.result.val) = call.workflows
        /\ LevelsCalled =>
              /\ ~call.result.hang
              /\ TotalLen(call.result.val) = Cardinality(call.workflows)
              /\ Flatten(call.result.val) = call.workflows


\* ------------------------------------------------------------------ restart claims
RerunCalled == call.op = "compute_merge_roots_again"

\* C27: on an acyclic graph and with new_roots non-empty, a second
\* compute_merge_roots call with the same new_roots, whose running list is
\* the cancel set of the first call's merge roots or those merge roots
\* themselves, returns the merge roots of the first call.
C27_MergeRootsStableOnRerun ==
    (RerunCalled /\ IsAcyclic(graph) /\ call.new_roots # <<>>) =>
        call.result = call.first

\* C27 witness: the first merge roots are not the new roots, the restarted
\* set holds a descendant besides them, and the second call gives them again.
C27_Witness ==
    /\ RerunCalled /\ IsAcyclic(graph) /\ call.new_roots # <<>>
    /\ ~call.first.err /\ call.first.val # <<>>
    /\ Range(call.first.val) # Range(call.new_roots)
    /\ Range(call.running) # Range(call.first.val)
    /\ call.result = call.first


\* ------------------------------------------------------------------ cascade claims
CascadeRunning == call.op = "cascade"

InWindow(k) == call.runs[k] # NoRun /\ call.runs[k] >= call.now - call.lookback_hours

Reported(w) == call.evaluation[w].pc = "done"

\* The dependency of d whose completion came last.
LastCompleted(d) ==
    CHOOSE w \in DirectDeps(graph, d) :
        \A v \in DirectDeps(graph, d) :
            \E m, n \in 1..Len(call.completions) :
                m <= n /\ call.completions[m] = v /\ call.completions[n] = w

\* C28: for a workflow d with several direct dependencies, once all of them
\* have completed (each recorded in the window before its evaluation starts),
\* the finished evaluation for the dependency that completed last lists d as
\* ready; and whenever a finished evaluation lists d as ready, every
\* dependency of d has a successful run in the window.
C28_FanInNotLostNotEarly ==
    CascadeRunning =>
        \A d \in DOMAIN graph :
            Cardinality(DirectDeps(graph, d)) >= 2 =>
                /\ (/\ DirectDeps(graph, d) \subseteq Range(call.completions)
                    /\ Reported(LastCompleted(d))) =>
                       d \in Range(call.evaluation[LastCompleted(d)].ready)
                /\ \A w \in Keys :
                      (Reported(w) /\ d \in Range(call.evaluation[w].ready)) =>
                          \A dep \in DirectDeps(graph, d) : InWindow(dep)

\* C28 witness: d has two dependencies; the evaluation for the one that
\* completed first finished with d waiting, started before the other was
\* recorded, and the evaluation for the one that completed last lists d as
\* ready.
C28_Witness ==
    /\ CascadeRunning
    /\ \E d \in DOMAIN graph :
          /\ Cardinality(DirectDeps(graph, d)) = 2 /\ d \notin DirectDeps(graph, d)
          /\ DirectDeps(graph, d) \subseteq Range(call.completions)
          /\ \A w \in DirectDeps(graph, d) : Reported(w)
          /\ d \in Range(call.evaluation[LastCompleted(d)].ready)
          /\ \E w \in DirectDeps(graph, d) : d \in DOMAIN call.evaluation[w].waiting


\* ------------------------------------------------------------------ scheduler agreement claims
BothCalled == call.op = "sort_and_levels"

\* The levels listed one after the other.
RECURSIVE LevelsInOrder(_)
LevelsInOrder(levels) ==
    IF levels = <<>> THEN <<>> ELSE Head(levels) \o LevelsInOrder(Tail(levels))

\* C29: on every graph, cyclic or not, and every subset, topological_sort
\* and topological_sort_levels return, and the set of workflows in the sorted
\* list is the union of the levels; in the levels listed in order every
\* workflow comes after each of its dependencies inside the subset.
C29_SortAndLevelsAgree ==
    BothCalled =>
        /\ ~call.order.hang /\ ~call.levels.hang
        /\ Range(call.order.val) = Flatten(call.levels.val)
        /\ \A w \in Flatten(call.levels.val) : \A d \in InSubsetDeps(w) :
              Before(LevelsInOrder(call.levels.val), d, w)

\* C29 witness: the two results hold the same workflows, one of them a
\* dependent of another, and the sorted list differs from the levels listed
\* in order.
C29_Witness ==
    /\ BothCalled /\ ~call.order.hang /\ ~call.levels.hang
    /\ Range(call.order.val) = Flatten(call.levels.val)
    /\ call.order.val # LevelsInOrder(call.levels.val)
    /\ \E w \in Range(call.order.val) : InSubsetDeps(w) # {}


\* ------------------------------------------------------------------ cache claims
UncachedAncestors(k) == get_all_ancestors(k, graph, EmptyDict, 1).val

UncachedDescendants(k) == get_all_descendants(k, graph, EmptyDict, 1).val

\* C30: on an acyclic graph no walk of a sequence raises; every walk, with
\* the shared cache or with none, returned what an uncached call returns for
\* its key, which is the key's transitive ancestor (descendant) set; after a
\* walk with the cache the queried key has an entry; every entry of a cache
\* equals the uncached result for its key, and the keys that result names
\* (the keys the walk visited) have entries too.
C30_MemoizationTransparent ==
    IsAcyclic(graph) =>
        /\ call.op = "walks"
        /\ \A k \in DOMAIN call.ancestor_cache :
              /\ call.ancestor_cache[k] = UncachedAncestors(k)
              /\ UncachedAncestors(k) \subseteq DOMAIN call.ancestor_cache
        /\ \A k \in DOMAIN call.descendant_cache :
              /\ call.descendant_cache[k] = UncachedDescendants(k)
              /\ UncachedDescendants(k) \subseteq DOMAIN call.descendant_cache
        /\ call.last.fn = "get_all_ancestors" =>
              /\ call.last.result = UncachedAncestors(call.last.workflow)
              /\ call.last.result = TransitiveAncestors(graph, call.last.workflow)
              /\ call.last.cached => call.last.workflow \in DOMAIN call.ancestor_cache
        /\ call.last.fn = "get_all_descendants" =>
              /\ call.last.result = UncachedDescendants(call.last.workflow)
              /\ call.last.result = TransitiveDescendants(graph, call.last.workflow)
              /\ call.last.cached => call.last.workflow \in DOMAIN call.descendant_cache

\* C30 witness: a walk answered from the cache, for a key that has two
\* ancestors, while the descendant cache of the same caller is in use too.
C30_Witness ==
    /\ call.op = "walks" /\ IsAcyclic(graph)
    /\ call.last.fn = "get_all_ancestors" /\ call.last.cached /\ call.last.hit
    /\ Cardinality(call.last.result) = 2
    /\ DOMAIN call.descendant_cache # {}

====
